---- MODULE Spec2Model ----
(***************************************************************************)
(* Haar-like features (skimage/feature/haar.py): the feature-type          *)
(* registry, the coordinate generator and the integral-image evaluator in  *)
(* its two modes (full recompute and partial recompute).                   *)
(*                                                                         *)
(* haar.py delegates the per-type work to the compiled module _haar        *)
(* (haar_like_feature_coord_wrapper, haar_like_feature_wrapper), which is   *)
(* not part of the sources at hand.  Those two are modelled from the       *)
(* specification, and where haar.py's own doctests show their output       *)
(* (lines 72-77, 149-155, 159-173) the model reproduces that output.       *)
(***************************************************************************)
EXTENDS Integers, Sequences, FiniteSets, TLC

VARIABLES args, pc, feature_type_, pos, acc, result, calls, reads

vars == <<args, pc, feature_type_, pos, acc, result, calls, reads>>

(***************************************************************************)
(* Bounds of the model.                                                    *)
(***************************************************************************)
\* windows of the coordinate generator and of the full recompute: 1..MaxWin
MaxWin == 5
\* window offsets r, c: 0..MaxOff
MaxOff == 1
\* sides of the square test images (besides the doctest's 5x5 image of ones)
ImgDim == 3
\* test images have pixel (i, j) = b^(i*cols + j) for b in 0..MaxBase
MaxBase == 2
\* requested topology collections have up to MaxReq names
MaxReq == 2
\* a partial recompute is handed up to MaxSel selected features
MaxSel == 3

\* side of the doctest's image, np.ones((5, 5))
DocDim == 5

(***************************************************************************)
(* Sequences and arrays.                                                   *)
(***************************************************************************)
Range(s) == {s[i] : i \in 1..Len(s)}

RECURSIVE SumSeq(_)
SumSeq(s) == IF s = <<>> THEN 0 ELSE Head(s) + SumSeq(Tail(s))

RECURSIVE Concatenate(_)
Concatenate(ss) == IF ss = <<>> THEN <<>> ELSE Head(ss) \o Concatenate(Tail(ss))

RECURSIVE Power(_, _)
Power(b, e) == IF e = 0 THEN 1 ELSE b * Power(b, e - 1)

Min(S) == CHOOSE m \in S : \A n \in S : m <= n

(***************************************************************************)
(* Section 4.1: the feature-type registry.                                 *)
(***************************************************************************)
FEATURE_TYPE == <<"type-2-x", "type-2-y", "type-3-x", "type-3-y", "type-4">>

\* Call outcomes: a returned value or a raised error.
NoResult == [kind |-> "none", token |-> "", values |-> <<>>, coord |-> <<>>, type |-> <<>>]

Returned(v) == [NoResult EXCEPT !.kind = "ok", !.values = v]

ReturnedCoord(fc, ft) == [NoResult EXCEPT !.kind = "ok", !.coord = fc, !.type = ft]

Raised(k, tok) == [NoResult EXCEPT !.kind = k, !.token = tok]

\* the three shapes of an argument: None, one string, an array or list
None == [tag |-> "none", v |-> <<>>]

Str(s) == [tag |-> "str", v |-> <<s>>]

Arr(l) == [tag |-> "seq", v |-> l]

\* _validate_feature_type: the list to iterate, or the ValueError naming the
\* first unknown name
ValidateFirstOnly(feature_type) ==
    IF feature_type.tag = "none" THEN [ok |-> TRUE, token |-> "", list |-> FEATURE_TYPE]
    ELSE IF feature_type.v # <<>> /\ feature_type.v[1] \notin Range(FEATURE_TYPE)
         THEN [ok |-> FALSE, token |-> feature_type.v[1], list |-> <<>>]
         ELSE [ok |-> TRUE, token |-> "", list |-> feature_type.v]

\* without the isinstance test a string is iterated character by character
ValidateStringAsChars(feature_type) ==
    IF feature_type.tag = "none" THEN [ok |-> TRUE, token |-> "", list |-> FEATURE_TYPE]
    ELSE LET l == IF feature_type.tag = "str" THEN <<"t">> ELSE feature_type.v
             bad == {i \in 1..Len(l) : l[i] \notin Range(FEATURE_TYPE)}
         IN IF bad # {}
            THEN [ok |-> FALSE, token |-> l[Min(bad)], list |-> <<>>]
            ELSE [ok |-> TRUE, token |-> "", list |-> l]

_validate_feature_type(feature_type) ==
    IF feature_type.tag = "none" THEN [ok |-> TRUE, token |-> "", list |-> FEATURE_TYPE]
    ELSE LET l == IF feature_type.tag = "str" THEN <<feature_type.v[1]>> ELSE feature_type.v
             bad == {i \in 1..Len(l) : l[i] \notin Range(FEATURE_TYPE)}
         IN IF bad # {}
            THEN [ok |-> FALSE, token |-> l[Min(bad)], list |-> <<>>]
            ELSE [ok |-> TRUE, token |-> "", list |-> l]

(***************************************************************************)
(* Section 4.2: the coordinate generator of one topology                   *)
(* (haar_like_feature_coord_wrapper).  A rectangle is                      *)
(* <<<<row0, col0>>, <<row1, col1>>>>, both corners inclusive.             *)
(***************************************************************************)
Rect(r0, c0, r1, c1) == <<<<r0, c0>>, <<r1, c1>>>>

\* The loop nest: y, then x, then dy, then dx.  The doctest at lines 149-155
\* (5x5, 'type-3-x': 42 values, none of them -5) shows that dy stops short of
\* the window's height.
LoopNest(width, height) ==
    LET ny == height - 1
        nx == width - 1
        n  == height * width * ny * nx
    IN [k \in 1..n |->
          [dx |-> ((k - 1) % nx) + 1,
           dy |-> (((k - 1) \div nx) % ny) + 1,
           x  |-> ((k - 1) \div (nx * ny)) % width,
           y  |-> (k - 1) \div (nx * ny * width)]]

FitsWindow(feat_t, t, width, height) ==
    CASE feat_t = "type-2-x" -> t.y + t.dy <= height /\ t.x + 2 * t.dx <= width
      [] feat_t = "type-2-y" -> t.y + 2 * t.dy <= height /\ t.x + t.dx <= width
      [] feat_t = "type-3-x" -> t.y + t.dy <= height /\ t.x + 3 * t.dx <= width
      [] feat_t = "type-3-y" -> t.y + 3 * t.dy <= height /\ t.x + t.dx <= width
      [] feat_t = "type-4"   -> t.y + 2 * t.dy <= height /\ t.x + 2 * t.dx <= width
      [] OTHER -> FALSE

\* The rectangles of one feature, all of size dy x dx.  'type-4' lists them
\* top-left, top-right, bottom-right, bottom-left (doctest, lines 72-75).
FeatureRects(feat_t, t) ==
    LET y == t.y  x == t.x  dy == t.dy  dx == t.dx
    IN CASE feat_t = "type-2-x" ->
              << Rect(y, x, y + dy - 1, x + dx - 1),
                 Rect(y, x + dx, y + dy - 1, x + 2 * dx - 1) >>
         [] feat_t = "type-2-y" ->
              << Rect(y, x, y + dy - 1, x + dx - 1),
                 Rect(y + dy, x, y + 2 * dy - 1, x + dx - 1) >>
         [] feat_t = "type-3-x" ->
              << Rect(y, x, y + dy - 1, x + dx - 1),
                 Rect(y, x + dx, y + dy - 1, x + 2 * dx - 1),
                 Rect(y, x + 2 * dx, y + dy - 1, x + 3 * dx - 1) >>
         [] feat_t = "type-3-y" ->
              << Rect(y, x, y + dy - 1, x + dx - 1),
                 Rect(y + dy, x, y + 2 * dy - 1, x + dx - 1),
                 Rect(y + 2 * dy, x, y + 3 * dy - 1, x + dx - 1) >>
         [] feat_t = "type-4" ->
              << Rect(y, x, y + dy - 1, x + dx - 1),
                 Rect(y, x + dx, y + dy - 1, x + 2 * dx - 1),
                 Rect(y + dy, x + dx, y + 2 * dy - 1, x + 2 * dx - 1),
                 Rect(y + dy, x, y + 2 * dy - 1, x + dx - 1) >>

haar_like_feature_coord_wrapper(width, height, feat_t) ==
    LET nest == LoopNest(width, height)
        kept == SelectSeq(nest, LAMBDA t : FitsWindow(feat_t, t, width, height))
    IN [coord |-> [k \in 1..Len(kept) |-> FeatureRects(feat_t, kept[k])],
        type  |-> [k \in 1..Len(kept) |-> feat_t]]

(***************************************************************************)
(* Images.  An image is [rows, cols, at], at[<<i, j>>] for 0 <= i < rows,  *)
(* 0 <= j < cols.  The integral image is the caller's; it is built here    *)
(* with the summed-area convention of section 3.                           *)
(***************************************************************************)
NoImage == [rows |-> 0, cols |-> 0, at |-> <<>>]

Cells(rows, cols) == (0..(rows - 1)) \X (0..(cols - 1))

\* pixel (i, j) = b^(i*cols + j): b = 1 is np.ones, b >= 2 gives every set of
\* pixels its own sum
PowerImage(rows, cols, b) ==
    [rows |-> rows, cols |-> cols,
     at |-> [p \in Cells(rows, cols) |-> Power(b, p[1] * cols + p[2])]]

\* the sum of the pixels of rows r0..r1 and columns c0..c1, pixel by pixel
RECURSIVE BruteSum(_, _, _, _, _)
BruteSum(image, r0, c0, r1, c1) ==
    IF r0 > r1 THEN 0
    ELSE SumSeq([j \in 1..(c1 - c0 + 1) |-> image.at[<<r0, c0 + j - 1>>]])
         + BruteSum(image, r0 + 1, c0, r1, c1)

integral_image(image) ==
    [rows |-> image.rows, cols |-> image.cols,
     at |-> [p \in Cells(image.rows, image.cols) |-> BruteSum(image, 0, 0, p[1], p[2])]]

(***************************************************************************)
(* Section 4.3: the sum over a rectangle from four lookups.                *)
(***************************************************************************)
IntegrateNoBoundary(int_image, r0, c0, r1, c1) ==
    int_image.at[<<r1, c1>>]
    - (IF r0 > 0 THEN int_image.at[<<r0 - 1, c1>>] ELSE 0)
    - (IF c0 > 0 THEN int_image.at[<<r1, c0 - 1>>] ELSE 0)

Integrate(int_image, r0, c0, r1, c1) ==
    int_image.at[<<r1, c1>>]
    - (IF r0 > 0 THEN int_image.at[<<r0 - 1, c1>>] ELSE 0)
    - (IF c0 > 0 THEN int_image.at[<<r1, c0 - 1>>] ELSE 0)
    + (IF r0 > 0 /\ c0 > 0 THEN int_image.at[<<r0 - 1, c0 - 1>>] ELSE 0)

\* the number of cells of the integral image that Integrate reads
Lookups(r0, c0) ==
    1 + (IF r0 > 0 THEN 1 ELSE 0) + (IF c0 > 0 THEN 1 ELSE 0)
      + (IF r0 > 0 /\ c0 > 0 THEN 1 ELSE 0)

\* The sign of the rectangle at 0-based index idx_rect: the rule
\* draw_haar_like_feature paints by (odd index positive, even index negative).
RectSignFlipped(idx_rect) == IF ((idx_rect + 1) % 2) = 0 THEN -1 ELSE 1

RectSign(idx_rect) == IF ((idx_rect + 1) % 2) = 0 THEN 1 ELSE -1

(***************************************************************************)
(* Section 4.4: the evaluator of one topology (haar_like_feature_wrapper). *)
(***************************************************************************)
\* the last row and the last column of the integral image left out
WindowFitsStrict(int_image, r, c, width, height) ==
    /\ r >= 0 /\ c >= 0
    /\ r + height < int_image.rows
    /\ c + width < int_image.cols

WindowFits(int_image, r, c, width, height) ==
    /\ r >= 0 /\ c >= 0
    /\ r + height <= int_image.rows
    /\ c + width <= int_image.cols

\* the value of one feature: the signed sum of its rectangles, each offset by
\* the window's (r, c)
FeatureValue(int_image, r, c, rects) ==
    SumSeq([i \in 1..Len(rects) |->
              RectSign(i - 1) * Integrate(int_image,
                                          r + rects[i][1][1], c + rects[i][1][2],
                                          r + rects[i][2][1], c + rects[i][2][2])])

FeatureLookups(r, c, rects) ==
    SumSeq([i \in 1..Len(rects) |-> Lookups(r + rects[i][1][1], c + rects[i][1][2])])

\* feature_coord is None (generate the topology's coordinates) or an array
haar_like_feature_wrapper(int_image, r, c, width, height, feat_t, feature_coord) ==
    IF ~WindowFits(int_image, r, c, width, height)
    THEN [ok |-> FALSE, values |-> <<>>, lookups |-> 0]
    ELSE LET coord == IF feature_coord.tag = "none"
                      THEN haar_like_feature_coord_wrapper(width, height, feat_t).coord
                      ELSE feature_coord.v
         IN [ok |-> TRUE,
             values |-> [k \in 1..Len(coord) |-> FeatureValue(int_image, r, c, coord[k])],
             lookups |-> SumSeq([k \in 1..Len(coord) |-> FeatureLookups(r, c, coord[k])])]

(***************************************************************************)
(* haar_like_feature_coord: validate, one wrapper call per requested       *)
(* topology, concatenate.                                                  *)
(***************************************************************************)
NoAcc == [coord |-> <<>>, type |-> <<>>, idx |-> <<>>, values |-> <<>>]

\* feat_coord.append(feat_t_coord); feat_type.append(feat_t_type)
CoordAppendMisaligned(a, w) ==
    [a EXCEPT !.coord = Append(a.coord, w.coord), !.type = <<w.type>> \o a.type]

CoordAppend(a, w) ==
    [a EXCEPT !.coord = Append(a.coord, w.coord), !.type = Append(a.type, w.type)]

\* np.concatenate(feat_coord), np.hstack(feat_type); both need one array at least
CoordResult(a) ==
    IF a.coord = <<>> THEN Raised("NothingToConcatenate", "")
    ELSE ReturnedCoord(Concatenate(a.coord), Concatenate(a.type))

RECURSIVE CoordLoop(_, _, _, _)
CoordLoop(width, height, l, a) ==
    IF l = <<>> THEN a
    ELSE CoordLoop(width, height, Tail(l),
                   CoordAppend(a, haar_like_feature_coord_wrapper(width, height, Head(l))))

haar_like_feature_coord(width, height, feature_type) ==
    LET v == _validate_feature_type(feature_type)
    IN IF ~v.ok THEN Raised("InvalidTopology", v.token)
       ELSE CoordResult(CoordLoop(width, height, v.list, NoAcc))

(***************************************************************************)
(* haar_like_feature, full recompute (feature_coord is None).              *)
(***************************************************************************)
\* np.hstack(list(chain.from_iterable(...))): the values of all topologies in
\* one list; np.hstack needs one value at least
FullResultLastOnly(a) ==
    IF a.values = <<>> \/ a.values[Len(a.values)] = <<>>
    THEN Raised("NothingToConcatenate", "")
    ELSE Returned(a.values[Len(a.values)])

FullResult(a) ==
    LET l == Concatenate(a.values)
    IN IF l = <<>> THEN Raised("NothingToConcatenate", "") ELSE Returned(l)

(***************************************************************************)
(* haar_like_feature, partial recompute (feature_coord is an array).       *)
(***************************************************************************)
\* feature_type == feat_t, element by element
Mask(feature_type, feat_t) == [i \in 1..Len(feature_type) |-> feature_type[i] = feat_t]

count_nonzero(mask) == Cardinality({i \in 1..Len(mask) : mask[i]})

\* the 0-based indices of the true entries, ascending
RECURSIVE flatnonzero(_)
flatnonzero(mask) ==
    IF mask = <<>> THEN <<>>
    ELSE flatnonzero(SubSeq(mask, 1, Len(mask) - 1))
         \o (IF mask[Len(mask)] THEN <<Len(mask) - 1>> ELSE <<>>)

\* feature_coord[mask]
Masked(feature_coord, mask) ==
    LET idx == flatnonzero(mask) IN [k \in 1..Len(idx) |-> feature_coord[idx[k] + 1]]

\* the positions of FEATURE_TYPE from p on whose mask is not empty
Pending(feature_type, p) ==
    {q \in p..Len(FEATURE_TYPE) : count_nonzero(Mask(feature_type, FEATURE_TYPE[q])) > 0}

\* haar_feature[haar_feature_idx] = haar_feature.copy()
ScatterAsGather(haar_feature, haar_feature_idx) ==
    [j \in 1..Len(haar_feature) |-> haar_feature[haar_feature_idx[j] + 1]]

Scatter(haar_feature, haar_feature_idx) ==
    [j \in 1..Len(haar_feature) |->
        LET ks == {k \in 1..Len(haar_feature_idx) : haar_feature_idx[k] + 1 = j}
        IN IF ks = {} THEN haar_feature[j]
           ELSE haar_feature[CHOOSE k \in ks : \A k2 \in ks : k2 <= k]]

\* zip(*[...]) needs one group at least; an index past the end is an IndexError
PartialResult(a) ==
    IF a.idx = <<>> THEN Raised("NothingToUnpack", "")
    ELSE LET haar_feature_idx == Concatenate(a.idx)
             haar_feature == Concatenate(a.values)
         IN IF \E k \in 1..Len(haar_feature_idx) : haar_feature_idx[k] >= Len(haar_feature)
            THEN Raised("IndexError", "")
            ELSE Returned(Scatter(haar_feature, haar_feature_idx))

\* if feature_coord.shape[0] != feature_type.shape[0]: raise ValueError
ShapeCheckOff(feature_coord, feature_type) == TRUE

ShapeCheck(feature_coord, feature_type) == Len(feature_coord) = Len(feature_type)

(***************************************************************************)
(* haar_like_feature as one function of its arguments.                     *)
(***************************************************************************)
RECURSIVE FullLoop(_, _, _, _, _, _, _)
FullLoop(int_image, r, c, width, height, l, a) ==
    IF l = <<>> THEN [ok |-> TRUE, acc |-> a]
    ELSE LET w == haar_like_feature_wrapper(int_image, r, c, width, height, Head(l), None)
         IN IF ~w.ok THEN [ok |-> FALSE, acc |-> a]
            ELSE FullLoop(int_image, r, c, width, height, Tail(l),
                          [a EXCEPT !.values = Append(@, w.values)])

RECURSIVE PartialLoop(_, _, _, _, _, _, _, _, _)
PartialLoop(int_image, r, c, width, height, feature_type, feature_coord, p, a) ==
    IF Pending(feature_type, p) = {} THEN [ok |-> TRUE, acc |-> a]
    ELSE LET q == Min(Pending(feature_type, p))
             mask == Mask(feature_type, FEATURE_TYPE[q])
             w == haar_like_feature_wrapper(int_image, r, c, width, height, FEATURE_TYPE[q],
                                            Arr(Masked(feature_coord, mask)))
         IN IF ~w.ok THEN [ok |-> FALSE, acc |-> a]
            ELSE PartialLoop(int_image, r, c, width, height, feature_type, feature_coord, q + 1,
                             [a EXCEPT !.idx = Append(@, flatnonzero(mask)),
                                       !.values = Append(@, w.values)])

haar_like_feature(int_image, r, c, width, height, feature_type, feature_coord) ==
    IF feature_coord.tag = "none"
    THEN LET v == _validate_feature_type(feature_type)
         IN IF ~v.ok THEN Raised("InvalidTopology", v.token)
            ELSE LET lp == FullLoop(int_image, r, c, width, height, v.list, NoAcc)
                 IN IF ~lp.ok THEN Raised("WindowOutOfBounds", "") ELSE FullResult(lp.acc)
    ELSE IF ~ShapeCheck(feature_coord.v, feature_type.v) THEN Raised("ShapeMismatch", "")
         ELSE LET lp == PartialLoop(int_image, r, c, width, height, feature_type.v,
                                    feature_coord.v, 1, NoAcc)
              IN IF ~lp.ok THEN Raised("WindowOutOfBounds", "") ELSE PartialResult(lp.acc)

(***************************************************************************)
(* The calls.  args holds the arguments of one call of                     *)
(* haar_like_feature_coord (mode "coord") or of haar_like_feature (mode    *)
(* "full": feature_coord is None; mode "partial": feature_coord is given). *)
(***************************************************************************)
\* an image with its integral image
WithIntegral(image) == [image |-> image, int_image |-> integral_image(image)]

Call(mode, im, r, c, width, height, feature_type, feature_coord) ==
    [mode |-> mode, image |-> im.image, int_image |-> im.int_image,
     r |-> r, c |-> c, width |-> width, height |-> height,
     feature_type |-> feature_type, feature_coord |-> feature_coord]

\* the five canonical names and an unknown one
Names == Range(FEATURE_TYPE) \cup {"type-5"}

RECURSIVE SeqsUpTo(_, _)
SeqsUpTo(S, n) ==
    IF n = 0 THEN {<<>>}
    ELSE LET shorter == SeqsUpTo(S, n - 1)
         IN shorter \cup {Append(l, x) : l \in {m \in shorter : Len(m) = n - 1}, x \in S}

\* sequences without repetition
RECURSIVE InjSeqsUpTo(_, _)
InjSeqsUpTo(S, n) ==
    IF n = 0 THEN {<<>>}
    ELSE LET shorter == InjSeqsUpTo(S, n - 1)
         IN shorter \cup
            UNION {{Append(l, x) : x \in S \ Range(l)} : l \in {m \in shorter : Len(m) = n - 1}}

Requests == {None} \cup {Str(n) : n \in Names} \cup {Arr(l) : l \in SeqsUpTo(Names, MaxReq)}

SimpleRequests == {None} \cup {Str(n) : n \in Names}

DocImage == WithIntegral(PowerImage(DocDim, DocDim, 1))

Images == {DocImage} \cup {WithIntegral(PowerImage(ImgDim, ImgDim, b)) : b \in 0..MaxBase}

\* the image whose pixels are the powers of two
DistinctImage == WithIntegral(PowerImage(ImgDim, ImgDim, 2))

InitCoord ==
    \E w \in 1..MaxWin, h \in 1..MaxWin, ft \in Requests :
        args = Call("coord", WithIntegral(NoImage), 0, 0, w, h, ft, None)

\* every window on every image with the simple requests, and every request on
\* the doctest's image with square windows
InitFull ==
    \/ \E im \in Images, r \in 0..MaxOff, c \in 0..MaxOff,
          w \in 1..MaxWin, h \in 1..MaxWin, ft \in SimpleRequests :
           args = Call("full", im, r, c, w, h, ft, None)
    \/ \E o \in 0..MaxOff, w \in 1..MaxWin, ft \in Requests :
           args = Call("full", DocImage, o, o, w, w, ft, None)

\* what the caller of a partial recompute selects from: the first two
\* features of each topology, as haar_like_feature_coord returns them
Pool(width, height) ==
    LET g == haar_like_feature_coord(width, height, None)
        first(k) == Cardinality({j \in 1..k : g.type[j] = g.type[k]})
        keep == {k \in 1..Len(g.coord) : first(k) <= 2}
        RECURSIVE Pick(_)
        Pick(k) == IF k > Len(g.coord) THEN <<>>
                   ELSE (IF k \in keep THEN <<k>> ELSE <<>>) \o Pick(k + 1)
        ks == Pick(1)
    IN [coord |-> [i \in 1..Len(ks) |-> g.coord[ks[i]]],
        type  |-> [i \in 1..Len(ks) |-> g.type[ks[i]]]]

\* the type labels handed in with a selection: the selection's own, one label
\* short, one label long, or one label replaced by an unknown name
Labels(types) ==
    {types, Append(types, FEATURE_TYPE[1])}
    \cup (IF types = <<>> THEN {} ELSE {SubSeq(types, 1, Len(types) - 1)})
    \cup {[types EXCEPT ![p] = "type-5"] : p \in 1..Len(types)}

\* the window is the whole image, at offset (0, 0) or (MaxOff, MaxOff)
InitPartial ==
    \E im \in {DistinctImage}, pool \in {Pool(ImgDim, ImgDim)} :
        \E o \in {0, MaxOff}, sel \in InjSeqsUpTo(1..Len(pool.coord), MaxSel) :
            \E ft \in Labels([k \in 1..Len(sel) |-> pool.type[sel[k]]]) :
                args = Call("partial", im, o, o, ImgDim, ImgDim, Arr(ft),
                            Arr([k \in 1..Len(sel) |-> pool.coord[sel[k]]]))

Init ==
    /\ InitCoord \/ InitFull \/ InitPartial
    /\ pc = "start"
    /\ feature_type_ = <<>>
    /\ pos = 0
    /\ acc = NoAcc
    /\ result = NoResult
    /\ calls = 0
    /\ reads = 0

(***************************************************************************)
(* The steps of a call.  calls counts the wrapper calls made so far, reads *)
(* the cells of the integral image read so far.                            *)
(***************************************************************************)
\* feature_type_ = _validate_feature_type(feature_type)
Validate ==
    /\ pc = "start"
    /\ args.mode \in {"coord", "full"}
    /\ LET v == _validate_feature_type(args.feature_type)
       IN IF v.ok
          THEN /\ feature_type_' = v.list
               /\ pos' = 1
               /\ pc' = "loop"
               /\ UNCHANGED result
          ELSE /\ result' = Raised("InvalidTopology", v.token)
               /\ pc' = "done"
               /\ UNCHANGED <<feature_type_, pos>>
    /\ UNCHANGED <<args, acc, calls, reads>>

\* one turn of the loop of haar_like_feature_coord
CoordStep ==
    /\ pc = "loop"
    /\ args.mode = "coord"
    /\ pos <= Len(feature_type_)
    /\ acc' = CoordAppend(acc, haar_like_feature_coord_wrapper(args.width, args.height,
                                                                feature_type_[pos]))
    /\ pos' = pos + 1
    /\ calls' = calls + 1
    /\ UNCHANGED <<args, pc, feature_type_, result, reads>>

CoordReturn ==
    /\ pc = "loop"
    /\ args.mode = "coord"
    /\ pos > Len(feature_type_)
    /\ result' = CoordResult(acc)
    /\ pc' = "done"
    /\ UNCHANGED <<args, feature_type_, pos, acc, calls, reads>>

\* one turn of the generator of the full recompute
FullStep ==
    /\ pc = "loop"
    /\ args.mode = "full"
    /\ pos <= Len(feature_type_)
    /\ calls' = calls + 1
    /\ LET w == haar_like_feature_wrapper(args.int_image, args.r, args.c, args.width,
                                          args.height, feature_type_[pos], args.feature_coord)
       IN IF w.ok
          THEN /\ acc' = [acc EXCEPT !.values = Append(@, w.values)]
               /\ pos' = pos + 1
               /\ reads' = reads + w.lookups
               /\ UNCHANGED <<pc, result>>
          ELSE /\ result' = Raised("WindowOutOfBounds", "")
               /\ pc' = "done"
               /\ UNCHANGED <<acc, pos, reads>>
    /\ UNCHANGED <<args, feature_type_>>

FullReturn ==
    /\ pc = "loop"
    /\ args.mode = "full"
    /\ pos > Len(feature_type_)
    /\ result' = FullResult(acc)
    /\ pc' = "done"
    /\ UNCHANGED <<args, feature_type_, pos, acc, calls, reads>>

PartialCheck ==
    /\ pc = "start"
    /\ args.mode = "partial"
    /\ IF ShapeCheck(args.feature_coord.v, args.feature_type.v)
       THEN /\ pos' = 1
            /\ pc' = "loop"
            /\ UNCHANGED result
       ELSE /\ result' = Raised("ShapeMismatch", "")
            /\ pc' = "done"
            /\ UNCHANGED pos
    /\ UNCHANGED <<args, feature_type_, acc, calls, reads>>

\* one turn of the list comprehension that passes its filter: the next
\* topology of FEATURE_TYPE whose mask is not empty
PartialStep ==
    /\ pc = "loop"
    /\ args.mode = "partial"
    /\ Pending(args.feature_type.v, pos) # {}
    /\ calls' = calls + 1
    /\ LET q == Min(Pending(args.feature_type.v, pos))
           mask == Mask(args.feature_type.v, FEATURE_TYPE[q])
           w == haar_like_feature_wrapper(args.int_image, args.r, args.c, args.width,
                                          args.height, FEATURE_TYPE[q],
                                          Arr(Masked(args.feature_coord.v, mask)))
       IN IF w.ok
          THEN /\ acc' = [acc EXCEPT !.idx = Append(@, flatnonzero(mask)),
                                     !.values = Append(@, w.values)]
               /\ pos' = q + 1
               /\ reads' = reads + w.lookups
               /\ UNCHANGED <<pc, result>>
          ELSE /\ result' = Raised("WindowOutOfBounds", "")
               /\ pc' = "done"
               /\ UNCHANGED <<acc, pos, reads>>
    /\ UNCHANGED <<args, feature_type_>>

PartialReturn ==
    /\ pc = "loop"
    /\ args.mode = "partial"
    /\ Pending(args.feature_type.v, pos) = {}
    /\ result' = PartialResult(acc)
    /\ pc' = "done"
    /\ UNCHANGED <<args, feature_type_, pos, acc, calls, reads>>

Next ==
    \/ Validate
    \/ CoordStep
    \/ CoordReturn
    \/ FullStep
    \/ FullReturn
    \/ PartialCheck
    \/ PartialStep
    \/ PartialReturn

Spec == Init /\ [][Next]_vars

(***************************************************************************)
(* The steps of a call add up to the function.                             *)
(***************************************************************************)
StepsAgree ==
    pc = "done" =>
        result = IF args.mode = "coord"
                 THEN haar_like_feature_coord(args.width, args.height, args.feature_type)
                 ELSE haar_like_feature(args.int_image, args.r, args.c, args.width, args.height,
                                        args.feature_type, args.feature_coord)

(***************************************************************************)
(* Vocabulary of the properties.                                           *)
(***************************************************************************)
Done(mode) == pc = "done" /\ args.mode = mode

Canonical(names) == \A i \in 1..Len(names) : names[i] \in Range(FEATURE_TYPE)

Perms(n) == {pi \in [1..n -> 1..n] : \A i, j \in 1..n : pi[i] = pi[j] => i = j}

Permuted(s, pi) == [k \in 1..Len(s) |-> s[pi[k]]]

\* a partial recompute of coordinates with their own canonical type labels
AlignedPartial ==
    /\ Done("partial")
    /\ Len(args.feature_type.v) = Len(args.feature_coord.v)
    /\ Canonical(args.feature_type.v)

(***************************************************************************)
(* C1: a partial recompute keeps the caller's order.  The value at output  *)
(* position i is the value of the feature at input position i, and         *)
(* handing the same coordinates and types in any other order pi returns    *)
(* pi applied to this call's result (the same error, when it fails).       *)
(***************************************************************************)
C1_OrderPreserved ==
    AlignedPartial =>
        LET fc == args.feature_coord.v
            ft == args.feature_type.v
            n  == Len(fc)
        IN /\ result.kind = "ok" =>
                /\ Len(result.values) = n
                /\ \A i \in 1..n :
                      result.values[i] = FeatureValue(args.int_image, args.r, args.c, fc[i])
           /\ \A pi \in Perms(n) :
                LET out == haar_like_feature(args.int_image, args.r, args.c, args.width,
                                             args.height, Arr(Permuted(ft, pi)),
                                             Arr(Permuted(fc, pi)))
                IN /\ out.kind = result.kind
                   /\ out.values = Permuted(result.values, pi)

\* three features handed in with their types interleaved, all of different value
C1_Witness ==
    /\ AlignedPartial
    /\ result.kind = "ok"
    /\ Len(result.values) = 3
    /\ args.feature_type.v[1] = args.feature_type.v[3]
    /\ args.feature_type.v[1] # args.feature_type.v[2]
    /\ Cardinality(Range(result.values)) = 3

(***************************************************************************)
(* C2: the full recompute over all five topologies returns the vector the  *)
(* partial recompute returns for the coordinates and types of              *)
(* haar_like_feature_coord(width, height): the same length and the same    *)
(* value at every index; where one of them raises, so does the other.      *)
(***************************************************************************)
AllTopologies == Done("full") /\ args.feature_type = None

C2_FullEqualsPartial ==
    AllTopologies =>
        LET g == haar_like_feature_coord(args.width, args.height, None)
            partial == haar_like_feature(args.int_image, args.r, args.c, args.width,
                                         args.height, Arr(g.type), Arr(g.coord))
        IN /\ g.kind = "ok"
           /\ (result.kind = "ok") <=> (partial.kind = "ok")
           /\ result.kind = "ok" =>
                /\ Len(result.values) = Len(partial.values)
                /\ Len(result.values) = Len(g.coord)
                /\ \A k \in 1..Len(result.values) : result.values[k] = partial.values[k]

\* a window away from the image's corner, with features of all five
\* topologies and more than one value among them
C2_Witness ==
    /\ AllTopologies
    /\ result.kind = "ok"
    /\ args.r > 0
    /\ args.c > 0
    /\ Range(haar_like_feature_coord(args.width, args.height, None).type) = Range(FEATURE_TYPE)
    /\ Cardinality(Range(result.values)) > 2

(***************************************************************************)
(* Rectangles, measured pixel by pixel.                                    *)
(***************************************************************************)
Area(rect) == (rect[2][1] - rect[1][1] + 1) * (rect[2][2] - rect[1][2] + 1)

\* the sum of the source pixels of a rectangle of the window at (r, c)
PixelSum(image, r, c, rect) ==
    BruteSum(image, r + rect[1][1], c + rect[1][2], r + rect[2][1], c + rect[2][2])

\* the request of one topology or of all of them, as the list it stands for
Requested(feature_type) == _validate_feature_type(feature_type).list

(***************************************************************************)
(* C3: every value of a full recompute is the sum over the feature's       *)
(* positive rectangles minus the sum over its negative rectangles, the     *)
(* rectangle at 0-based index i of a 2- or 3-rectangle feature having sign *)
(* (-1)^(i+1), and each rectangle's four-lookup sum equals the sum of the  *)
(* source pixels inside it.  On the image of ones, 'type-3-x' gives every  *)
(* feature the value minus the area of one of its rectangles.              *)
(***************************************************************************)
C3_SignedRectangleSums ==
    (Done("full") /\ result.kind = "ok") =>
        LET g == haar_like_feature_coord(args.width, args.height, args.feature_type)
            strips == {k \in 1..Len(g.coord) : Len(g.coord[k]) \in {2, 3}}
        IN /\ Len(result.values) = Len(g.coord)
           /\ \A k \in strips :
                LET rects == g.coord[k]
                    plus == {i \in 1..Len(rects) : (i - 1) % 2 = 1}
                    minus == {i \in 1..Len(rects) : (i - 1) % 2 = 0}
                    sum(I) == SumSeq([i \in 1..Len(rects) |->
                                 IF i \in I THEN PixelSum(args.image, args.r, args.c, rects[i])
                                 ELSE 0])
                IN /\ result.values[k] = sum(plus) - sum(minus)
                   /\ \A i \in 1..Len(rects) :
                        Integrate(args.int_image,
                                  args.r + rects[i][1][1], args.c + rects[i][1][2],
                                  args.r + rects[i][2][1], args.c + rects[i][2][2])
                        = PixelSum(args.image, args.r, args.c, rects[i])
           /\ (args.image = DocImage.image /\ args.feature_type = Str("type-3-x")) =>
                \A k \in 1..Len(g.coord) :
                    /\ result.values[k] < 0
                    /\ result.values[k] = - Area(g.coord[k][1])
                    /\ \A i \in 1..3 : Area(g.coord[k][i]) = Area(g.coord[k][1])

\* the doctest: the image of ones, the window (0, 0, 5, 5), 'type-3-x', 42 values
C3_Witness ==
    /\ Done("full")
    /\ result.kind = "ok"
    /\ args.image = DocImage.image
    /\ args.feature_type = Str("type-3-x")
    /\ <<args.r, args.c, args.width, args.height>> = <<0, 0, DocDim, DocDim>>
    /\ Len(result.values) = 42

(***************************************************************************)
(* C4: on the integral image of the 5x5 image of ones, over the window     *)
(* (0, 0, 5, 5) with 'type-2-x', the value of every feature is the area of *)
(* its negative rectangle minus the area of its positive rectangle, the    *)
(* negative one being the first (left) and the positive one the second     *)
(* (right).                                                                *)
(***************************************************************************)
DocTypeTwoX ==
    /\ Done("full")
    /\ args.image = DocImage.image
    /\ <<args.r, args.c, args.width, args.height>> = <<0, 0, DocDim, DocDim>>
    /\ args.feature_type = Str("type-2-x")

C4_DocExampleTypeTwoX ==
    DocTypeTwoX =>
        LET g == haar_like_feature_coord(DocDim, DocDim, Str("type-2-x"))
        IN /\ result.kind = "ok"
           /\ Len(result.values) = Len(g.coord)
           /\ \A k \in 1..Len(g.coord) :
                LET negative == g.coord[k][1]
                    positive == g.coord[k][2]
                IN /\ Len(g.coord[k]) = 2
                   /\ RectSign(0) < 0 /\ RectSign(1) > 0
                   \* the first is the left one: same rows, columns just before
                   /\ negative[1][1] = positive[1][1] /\ negative[2][1] = positive[2][1]
                   /\ negative[2][2] + 1 = positive[1][2]
                   /\ result.values[k] = Area(negative) - Area(positive)

\* the doctest's call has returned its 84 values
C4_Witness == DocTypeTwoX /\ result.kind = "ok" /\ Len(result.values) = 84

(***************************************************************************)
(* The enumeration rule of section 4.2, as sets: every top-left corner,    *)
(* every total height and width that fits in the window, every split into  *)
(* non-empty parts.  A feature is taken as the set of its rectangles.      *)
(***************************************************************************)
Extents(width, height, minw, minh) ==
    {e \in [r0 : 0..(height - 1), c0 : 0..(width - 1), h : minh..height, w : minw..width] :
        e.r0 + e.h <= height /\ e.c0 + e.w <= width}

\* the ways to cut n cells into parts non-empty pieces: the first cell of
\* every piece but the first
Cuts(n, parts) ==
    IF parts = 2 THEN {<<s>> : s \in 1..(n - 1)}
    ELSE {<<s, t>> : s \in 1..(n - 1), t \in 1..(n - 1)} \cap {<<s, t>> \in (1..n) \X (1..n) : s < t}

RuleFeatures(feat_t, width, height) ==
    CASE feat_t = "type-2-x" ->
           UNION {{ {Rect(e.r0, e.c0, e.r0 + e.h - 1, e.c0 + s[1] - 1),
                     Rect(e.r0, e.c0 + s[1], e.r0 + e.h - 1, e.c0 + e.w - 1)} :
                    s \in Cuts(e.w, 2)} : e \in Extents(width, height, 2, 1)}
      [] feat_t = "type-2-y" ->
           UNION {{ {Rect(e.r0, e.c0, e.r0 + s[1] - 1, e.c0 + e.w - 1),
                     Rect(e.r0 + s[1], e.c0, e.r0 + e.h - 1, e.c0 + e.w - 1)} :
                    s \in Cuts(e.h, 2)} : e \in Extents(width, height, 1, 2)}
      [] feat_t = "type-3-x" ->
           UNION {{ {Rect(e.r0, e.c0, e.r0 + e.h - 1, e.c0 + s[1] - 1),
                     Rect(e.r0, e.c0 + s[1], e.r0 + e.h - 1, e.c0 + s[2] - 1),
                     Rect(e.r0, e.c0 + s[2], e.r0 + e.h - 1, e.c0 + e.w - 1)} :
                    s \in Cuts(e.w, 3)} : e \in Extents(width, height, 3, 1)}
      [] feat_t = "type-3-y" ->
           UNION {{ {Rect(e.r0, e.c0, e.r0 + s[1] - 1, e.c0 + e.w - 1),
                     Rect(e.r0 + s[1], e.c0, e.r0 + s[2] - 1, e.c0 + e.w - 1),
                     Rect(e.r0 + s[2], e.c0, e.r0 + e.h - 1, e.c0 + e.w - 1)} :
                    s \in Cuts(e.h, 3)} : e \in Extents(width, height, 1, 3)}
      [] feat_t = "type-4" ->
           UNION {{ {Rect(e.r0, e.c0, e.r0 + t[1] - 1, e.c0 + s[1] - 1),
                     Rect(e.r0, e.c0 + s[1], e.r0 + t[1] - 1, e.c0 + e.w - 1),
                     Rect(e.r0 + t[1], e.c0, e.r0 + e.h - 1, e.c0 + s[1] - 1),
                     Rect(e.r0 + t[1], e.c0 + s[1], e.r0 + e.h - 1, e.c0 + e.w - 1)} :
                    s \in Cuts(e.w, 2), t \in Cuts(e.h, 2)} :
                  e \in Extents(width, height, 2, 2)}

\* a returned list of coordinates of one topology, or of all five
CoordOfTopologies ==
    /\ Done("coord")
    /\ result.kind = "ok"
    /\ args.feature_type.tag \in {"none", "str"}

(***************************************************************************)
(* C5: for each topology and every window, haar_like_feature_coord returns *)
(* every rectangle group the enumeration rule allows (every top-left       *)
(* corner, every total height and width that fits, the full extent of the  *)
(* window included, every split into non-empty parts) exactly once; a 2x2  *)
(* window with 'type-4' yields exactly one feature.                        *)
(***************************************************************************)
C5_ExhaustiveNonRedundant ==
    CoordOfTopologies =>
        /\ \A i, j \in 1..Len(result.coord) : result.coord[i] = result.coord[j] => i = j
        /\ \A t \in Range(Requested(args.feature_type)) :
              {Range(result.coord[k]) : k \in {j \in 1..Len(result.coord) : result.type[j] = t}}
              = RuleFeatures(t, args.width, args.height)
        /\ (args.feature_type = Str("type-4") /\ args.width = 2 /\ args.height = 2) =>
              Len(result.coord) = 1

(***************************************************************************)
(* Shapes of rectangle groups.                                             *)
(***************************************************************************)
Row0(rect) == rect[1][1]

Col0(rect) == rect[1][2]

Row1(rect) == rect[2][1]

Col1(rect) == rect[2][2]

CellsOf(rect) == (Row0(rect)..Row1(rect)) \X (Col0(rect)..Col1(rect))

InsideWindow(rect, width, height) ==
    /\ 0 <= Row0(rect) /\ Row0(rect) <= Row1(rect) /\ Row1(rect) <= height - 1
    /\ 0 <= Col0(rect) /\ Col0(rect) <= Col1(rect) /\ Col1(rect) <= width - 1

PairwiseDisjoint(rects) ==
    \A i, j \in 1..Len(rects) : i # j => CellsOf(rects[i]) \cap CellsOf(rects[j]) = {}

\* the rectangles cover their bounding box: no gap
NoGap(rects) ==
    LET rows == UNION {Row0(rects[i])..Row1(rects[i]) : i \in 1..Len(rects)}
        cols == UNION {Col0(rects[i])..Col1(rects[i]) : i \in 1..Len(rects)}
    IN UNION {CellsOf(rects[i]) : i \in 1..Len(rects)} = rows \X cols

\* n rectangles side by side, left to right, on the same rows
ColumnStrip(rects, n) ==
    /\ Len(rects) = n
    /\ \A i \in 1..n : Row0(rects[i]) = Row0(rects[1]) /\ Row1(rects[i]) = Row1(rects[1])
    /\ \A i \in 1..(n - 1) : Col0(rects[i + 1]) = Col1(rects[i]) + 1

\* n rectangles one below the other, top to bottom, on the same columns
RowStrip(rects, n) ==
    /\ Len(rects) = n
    /\ \A i \in 1..n : Col0(rects[i]) = Col0(rects[1]) /\ Col1(rects[i]) = Col1(rects[1])
    /\ \A i \in 1..(n - 1) : Row0(rects[i + 1]) = Row1(rects[i]) + 1

\* four rectangles that are the quadrants of a box cut once across and once down
Grid(rects) ==
    /\ Len(rects) = 4
    /\ \E tl, tr, bl, br \in Range(rects) :
          /\ Range(rects) = {tl, tr, bl, br}
          /\ ColumnStrip(<<tl, tr>>, 2) /\ ColumnStrip(<<bl, br>>, 2)
          /\ RowStrip(<<tl, bl>>, 2) /\ RowStrip(<<tr, br>>, 2)

ShapeOf(feat_t, rects) ==
    CASE feat_t = "type-2-x" -> ColumnStrip(rects, 2)
      [] feat_t = "type-3-x" -> ColumnStrip(rects, 3)
      [] feat_t = "type-2-y" -> RowStrip(rects, 2)
      [] feat_t = "type-3-y" -> RowStrip(rects, 3)
      [] feat_t = "type-4"   -> Grid(rects)
      [] OTHER -> FALSE

(***************************************************************************)
(* C6: every feature haar_like_feature_coord returns is a tiling inside    *)
(* the window: each rectangle has row0 <= row1, col0 <= col1 and lies in   *)
(* [0, height-1] x [0, width-1]; the rectangles of a feature are pairwise  *)
(* disjoint and leave no gap; they form a strip along the columns          *)
(* ('type-2-x', 'type-3-x'), a strip along the rows ('type-2-y',           *)
(* 'type-3-y') or a 2x2 grid ('type-4'), as the feature's type label says. *)
(***************************************************************************)
C6_ValidTilings ==
    (Done("coord") /\ result.kind = "ok") =>
        /\ Len(result.type) = Len(result.coord)
        /\ \A k \in 1..Len(result.coord) :
              LET rects == result.coord[k]
              IN /\ \A i \in 1..Len(rects) : InsideWindow(rects[i], args.width, args.height)
                 /\ PairwiseDisjoint(rects)
                 /\ NoGap(rects)
                 /\ ShapeOf(result.type[k], rects)

\* all five topologies returned for a window of three rows and columns or more
C6_Witness ==
    /\ Done("coord")
    /\ result.kind = "ok"
    /\ args.width >= 3 /\ args.height >= 3
    /\ Range(result.type) = Range(FEATURE_TYPE)

(***************************************************************************)
(* The four rectangles of a 'type-4' feature: where each lies and the sign *)
(* it is given (by its index, as draw_haar_like_feature paints it).        *)
(***************************************************************************)
TypeFour(k) == result.type[k] = "type-4"

\* top-left, top-right, bottom-left, bottom-right
RowMajor(rects) ==
    /\ Len(rects) = 4
    /\ ColumnStrip(<<rects[1], rects[2]>>, 2) /\ ColumnStrip(<<rects[3], rects[4]>>, 2)
    /\ RowStrip(<<rects[1], rects[3]>>, 2) /\ RowStrip(<<rects[2], rects[4]>>, 2)

\* top-left, top-right, bottom-right, bottom-left
Clockwise(rects) ==
    /\ Len(rects) = 4
    /\ ColumnStrip(<<rects[1], rects[2]>>, 2) /\ ColumnStrip(<<rects[4], rects[3]>>, 2)
    /\ RowStrip(<<rects[1], rects[4]>>, 2) /\ RowStrip(<<rects[2], rects[3]>>, 2)

\* the index (1-based) of the rectangle of a grid in the given row and column
\* half (0: top or left, 1: bottom or right)
Quadrant(rects, row_half, col_half) ==
    LET top  == Min({Row0(rects[i]) : i \in 1..Len(rects)})
        left == Min({Col0(rects[i]) : i \in 1..Len(rects)})
    IN CHOOSE i \in 1..Len(rects) :
          /\ (Row0(rects[i]) = top) <=> (row_half = 0)
          /\ (Col0(rects[i]) = left) <=> (col_half = 0)

\* top-left negative, top-right positive, bottom-left positive, bottom-right
\* negative
Checkerboard(rects) ==
    /\ RectSign(Quadrant(rects, 0, 0) - 1) = -1
    /\ RectSign(Quadrant(rects, 0, 1) - 1) = 1
    /\ RectSign(Quadrant(rects, 1, 0) - 1) = 1
    /\ RectSign(Quadrant(rects, 1, 1) - 1) = -1

Cell(row, col) == Rect(row, col, row, col)

TwoByTwoTypeFour == args.feature_type = Str("type-4") /\ args.width = 2 /\ args.height = 2

(***************************************************************************)
(* C7, as claimed: the four rectangles of every 'type-4' feature are       *)
(* listed in row-major order (top-left, top-right, bottom-left,            *)
(* bottom-right) and carry the checkerboard signs; the 2x2 window's        *)
(* feature is the cells (0,0), (0,1), (1,0), (1,1).                        *)
(***************************************************************************)
C7_RowMajorAsClaimed ==
    (Done("coord") /\ result.kind = "ok") =>
        /\ \A k \in 1..Len(result.coord) :
              TypeFour(k) => RowMajor(result.coord[k]) /\ Checkerboard(result.coord[k])
        /\ TwoByTwoTypeFour =>
              result.coord = << <<Cell(0, 0), Cell(0, 1), Cell(1, 0), Cell(1, 1)>> >>

(***************************************************************************)
(* C7, amended: the four rectangles of every 'type-4' feature are listed   *)
(* clockwise (top-left, top-right, bottom-right, bottom-left); with the    *)
(* sign given by the index (even index negative, odd index positive) they  *)
(* carry the checkerboard signs top-left negative, top-right positive,     *)
(* bottom-left positive, bottom-right negative; the 2x2 window's single    *)
(* feature is the cells (0,0), (0,1), (1,1), (1,0).                        *)
(***************************************************************************)
C7_ClockwiseCheckerboard ==
    (Done("coord") /\ result.kind = "ok") =>
        /\ \A k \in 1..Len(result.coord) :
              TypeFour(k) => Clockwise(result.coord[k]) /\ Checkerboard(result.coord[k])
        /\ TwoByTwoTypeFour =>
              result.coord = << <<Cell(0, 0), Cell(0, 1), Cell(1, 1), Cell(1, 0)>> >>

\* the doctest's call, haar_like_feature_coord(2, 2, 'type-4'), has returned
C7_Witness == Done("coord") /\ result.kind = "ok" /\ TwoByTwoTypeFour /\ Len(result.coord) = 1

(***************************************************************************)
(* Requests of topologies.                                                 *)
(***************************************************************************)
\* the positions of the requested names that are not canonical
Unknown(feature_type) ==
    IF feature_type.tag = "none" THEN {}
    ELSE {i \in 1..Len(feature_type.v) : feature_type.v[i] \notin Range(FEATURE_TYPE)}

Validating == args.mode \in {"coord", "full"}

(***************************************************************************)
(* C8: when the request of haar_like_feature_coord or of a full recompute  *)
(* holds a name that is not one of the five canonical ones, at any         *)
(* position, the call raises the invalid-topology error, naming the first  *)
(* such name, before any coordinate is generated and any value computed    *)
(* (no wrapper call, no read of the integral image, nothing returned); a   *)
(* request of None or of canonical names only never raises it.             *)
(***************************************************************************)
C8_ValidationFirst ==
    Validating =>
        IF Unknown(args.feature_type) # {}
        THEN /\ pc \in {"start", "done"}
             /\ calls = 0
             /\ reads = 0
             /\ acc = NoAcc
             /\ pc = "done" =>
                   result = Raised("InvalidTopology",
                                   args.feature_type.v[Min(Unknown(args.feature_type))])
        ELSE result.kind # "InvalidTopology"

\* a full recompute refused for the second name of its request
C8_Witness ==
    /\ Done("full")
    /\ result.kind = "InvalidTopology"
    /\ args.feature_type.tag = "seq"
    /\ Unknown(args.feature_type) = {2}
    /\ WindowFits(args.int_image, args.r, args.c, args.width, args.height)

(***************************************************************************)
(* The window against the integral image.                                  *)
(***************************************************************************)
Evaluating == args.mode \in {"full", "partial"}

\* the window's last row or last column lies past the integral image's
Overhangs ==
    \/ args.r < 0 \/ args.c < 0
    \/ args.r + args.height > args.int_image.rows
    \/ args.c + args.width > args.int_image.cols

\* what is raised before the first topology is evaluated, "" when nothing is:
\* the request is refused, or there is no topology to evaluate
RaisedEarlier ==
    IF args.mode = "full"
    THEN IF Unknown(args.feature_type) # {} THEN "InvalidTopology"
         ELSE IF args.feature_type.tag = "seq" /\ args.feature_type.v = <<>>
              THEN "NothingToConcatenate"
              ELSE ""
    ELSE IF Len(args.feature_coord.v) # Len(args.feature_type.v) THEN "ShapeMismatch"
         ELSE IF \A i \in 1..Len(args.feature_type.v) :
                     args.feature_type.v[i] \notin Range(FEATURE_TYPE)
              THEN "NothingToUnpack"
              ELSE ""

C10_ShapeMismatch ==
    args.mode = "partial" =>
        IF Len(args.feature_coord.v) # Len(args.feature_type.v)
        THEN /\ pc \in {"start", "done"}
             /\ calls = 0
             /\ reads = 0
             /\ acc = NoAcc
             /\ pc = "done" => result = Raised("ShapeMismatch", "")
        ELSE result.kind # "ShapeMismatch"

\* three coordinates and two type labels
C10_Witness ==
    /\ Done("partial")
    /\ result.kind = "ShapeMismatch"
    /\ Len(args.feature_coord.v) = 3
    /\ Len(args.feature_type.v) = 2

(***************************************************************************)
(* The type labels of a partial recompute.                                 *)
(***************************************************************************)
\* the positions of the labels that are not canonical
UnknownLabels == {i \in 1..Len(args.feature_type.v) :
                     args.feature_type.v[i] \notin Range(FEATURE_TYPE)}

EqualLengthPartial ==
    /\ Done("partial")
    /\ Len(args.feature_coord.v) = Len(args.feature_type.v)

(***************************************************************************)
(* C11: a partial recompute with as many type labels as coordinates either *)
(* raises an error or returns a vector with exactly one value per input    *)
(* feature; in particular a type label that is not one of the five         *)
(* canonical names makes the call fail, and never yields a vector shorter  *)
(* than the input.                                                         *)
(***************************************************************************)
C11_NoPartialOutput ==
    EqualLengthPartial =>
        /\ result.kind = "ok" => Len(result.values) = Len(args.feature_coord.v)
        /\ UnknownLabels # {} => result.kind # "ok"

====
